---- MODULE Spec2Model ----
(***************************************************************************)
(* State-machine model of the caluuplus backend (api/models.py,            *)
(* api/views.py, api/serializers.py).                                      *)
(*                                                                         *)
(* The source holds two designs of StudentCourse side by side:             *)
(*   - api/models.py: one row per (student, course) with grade and points; *)
(*     Student.get_gpa, generate_target_gpa and reset_grades read and      *)
(*     write these rows (variable rows);                                   *)
(*   - api/views.py (student_courses, save_courses_batch, remove_course,   *)
(*     get_student_courses_filtered): one record per student that holds a  *)
(*     JSON list of course snapshots (variable student_course).            *)
(* The methods add_course and remove_course of the second design, its save *)
(* hook and the Student flag has_courses are called or declared in the     *)
(* source but defined nowhere in it; they are modelled from the            *)
(* specification (Enrollment Ledger, Consistency Sync).                    *)
(*                                                                         *)
(* Grade points are tenths held as integers: 5.0 is 50, 4.5 is 45; a GPA  *)
(* and a target GPA are hundredths: 4.43 is 443.                           *)
(*                                                                         *)
(* Spec, SpecGrades and SpecGpa serve one request per step. SpecConc       *)
(* serves requests of two workers one ORM statement per step.              *)
(***************************************************************************)
EXTENDS Integers, Sequences, FiniteSets, TLC

\* Python None / SQL NULL for string-valued fields
NULL == "NULL"

\* SQL NULL of the float column points (models.py: null=True)
NoPoints == -1

\* ---- bounds of the model ----
\* longest JSON list of course snapshots a student_course record holds
MaxCourses == 2
\* most rows of the normalized StudentCourse table
MaxRows == 1
\* most rows of that table in the states the GPA requests start from
MaxGpaRows == 2

\* authenticated users (request.user)
Users == {"u1", "u2"}

\* ids of the Course rows of the catalog
CourseIds == {"c1", "c2"}

\* a well-formed uuid that names no Course row
UnknownId == "c9"

\* a course_id that is no uuid
NotAUuid == "zz"

VARIABLES
    catalog,         \* Course table: id -> fields
    student,         \* Student table: set of [id, user, year]
    req,             \* requests in flight, per worker: position and locals
    profile,         \* users that have a Student row
    has_courses,     \* Student.has_courses, per user
    student_course,  \* JSON design: per user [exists, courses]
    rows,            \* normalized design: set of [student, course, grade, points]
    lastOp           \* the request just served and its response

vars == <<catalog, student, req, profile, has_courses, student_course, rows,
         lastOp>>

\* ------------------------------------------------------------------
\* Catalog
\* ------------------------------------------------------------------

\* the Course rows the import pipeline has loaded
InitialCatalog ==
    [c \in CourseIds |->
        IF c = "c1"
        THEN [code |-> "CS101", name |-> "Intro", credits |-> 3,
              type |-> "core", semester |-> 1, year |-> 1]
        ELSE [code |-> "CS401", name |-> "ML", credits |-> 4,
              type |-> "elective", semester |-> 2, year |-> 1]]

\* ------------------------------------------------------------------
\* JSON design: helpers
\* ------------------------------------------------------------------

\* d.get(k): the value under key k, None when the key is absent
Get(d, k) == IF k \in DOMAIN d THEN d[k] ELSE NULL

\* serializers.IntegerField on the wire text of a number
IntText == [t \in {"1", "2", "3", "4"} |->
              CASE t = "1" -> 1 [] t = "2" -> 2 [] t = "3" -> 3 [] t = "4" -> 4]

IsIntText(t) == t \in DOMAIN IntText

ParseInt(t) == IntText[t]

\* the record no StudentCourse row stands for
NoRecord == [exists |-> FALSE, courses |-> << >>]

\* StudentCourse.objects.get_or_create(student=student): the stored record,
\* or a new one with an empty list
GetOrCreate(sc) == IF sc.exists THEN sc ELSE [exists |-> TRUE, courses |-> << >>]

\* whether a snapshot with this id is in the list
HasCourse(courses, id) == \E i \in 1..Len(courses) : courses[i].id = id

RECURSIVE WithoutCourse(_, _)
\* the list without every snapshot of this id, order kept
WithoutCourse(courses, id) ==
    IF courses = << >> THEN << >>
    ELSE IF Head(courses).id = id
         THEN WithoutCourse(Tail(courses), id)
         ELSE <<Head(courses)>> \o WithoutCourse(Tail(courses), id)

\* Consistency Sync: has_courses = (the list is not empty)
SyncedFlag(courses) == Len(courses) > 0

\* ------------------------------------------------------------------
\* JSON design: the snapshots a request carries or builds
\* ------------------------------------------------------------------

\* student_courses POST: the snapshot copied from the Course row
CourseData(id) ==
    [id |-> id, code |-> catalog[id].code, name |-> catalog[id].name,
     credits |-> catalog[id].credits, type |-> catalog[id].type,
     semester |-> catalog[id].semester, year |-> catalog[id].year,
     added_at |-> NULL]

\* CourseDataSerializer.is_valid on one item of the PUT body
ValidCourseData(item) ==
    /\ IsIntText(item.credits)
    /\ IsIntText(item.semester)
    /\ IsIntText(item.year)

\* CourseDataSerializer.validated_data of one item
ValidatedCourseData(item) ==
    [id |-> item.id, code |-> item.code, name |-> item.name,
     credits |-> ParseInt(item.credits), type |-> item.type,
     semester |-> ParseInt(item.semester), year |-> ParseInt(item.year)]

\* StudentCourseUpdateSerializer.is_valid: every item of the list is valid
ValidCourses(X) == \A i \in 1..Len(X) : ValidCourseData(X[i])

\* a formatting that swaps semester and year
FormatPutCourseSwapped(course) ==
    [id |-> course.id, code |-> course.code, name |-> course.name,
     credits |-> course.credits, type |-> course.type,
     semester |-> course.year, year |-> course.semester,
     added_at |-> Get(course, "added_at")]

\* student_courses PUT: one validated item in the stored format
FormatPutCourse(course) ==
    [id |-> course.id, code |-> course.code, name |-> course.name,
     credits |-> course.credits, type |-> course.type,
     semester |-> course.semester, year |-> course.year,
     added_at |-> Get(course, "added_at")]

\* student_courses PUT: formatted_courses
FormatPut(X) == [i \in 1..Len(X) |-> FormatPutCourse(ValidatedCourseData(X[i]))]

\* an item of the batch body that is a JSON object (has .get)
IsDict(item) == "str" \notin DOMAIN item

\* course_data.get('is_elective') taken as a condition
IsElective(course_data) ==
    "is_elective" \in DOMAIN course_data /\ course_data.is_elective

\* save_courses_batch: one item in the stored format
FormatBatchCourse(course_data) ==
    [id |-> Get(course_data, "course_id"),
     code |-> Get(course_data, "course_code"),
     name |-> Get(course_data, "course_name"),
     credits |-> Get(course_data, "credit_hour"),
     type |-> IF IsElective(course_data) THEN "elective" ELSE "core",
     semester |-> Get(course_data, "semester"),
     year |-> Get(course_data, "year"),
     added_at |-> NULL]

\* save_courses_batch: formatted_courses
FormatBatch(X) == [i \in 1..Len(X) |-> FormatBatchCourse(X[i])]

\* all sequences over S of length at most n
SeqsUpTo(S, n) == UNION {[1..k -> S] : k \in 0..n}

\* items of a PUT body: the two catalog courses as the client holds them,
\* and an item whose credits is no number
PutItems ==
    { [id |-> "c1", code |-> "CS101", name |-> "Intro", credits |-> "3",
       type |-> "core", semester |-> "1", year |-> "1"],
      [id |-> "c2", code |-> "CS401", name |-> "ML", credits |-> "4",
       type |-> "elective", semester |-> "2", year |-> "1"],
      [id |-> "c1", code |-> "CS101", name |-> "Intro", credits |-> "abc",
       type |-> "core", semester |-> "1", year |-> "1"] }

PutInputs == SeqsUpTo(PutItems, MaxCourses)

\* items of a batch body: the two catalog courses, and a JSON string
BatchItems ==
    { [course_id |-> "c1", course_code |-> "CS101", course_name |-> "Intro",
       credit_hour |-> 3, is_elective |-> FALSE, semester |-> 1, year |-> 1],
      [course_id |-> "c2", course_code |-> "CS401", course_name |-> "ML",
       credit_hour |-> 4, is_elective |-> TRUE, semester |-> 2, year |-> 1],
      [str |-> "oops"] }

BatchInputs == SeqsUpTo(BatchItems, MaxCourses)

\* query strings of the filter endpoint
Filters ==
    [semester : {NULL, "2"}, year : {NULL, "1"}, type : {NULL, "core"}]

NoFilter == [semester |-> NULL, year |-> NULL, type |-> NULL]

\* ------------------------------------------------------------------
\* JSON design: list
\* ------------------------------------------------------------------

\* get_student_courses_filtered: whether one snapshot passes the filters
PassesFilter(course, f) ==
    /\ f.semester # NULL => course.semester = ParseInt(f.semester)
    /\ f.year # NULL => course.year = ParseInt(f.year)
    /\ f.type # NULL => course.type = f.type

RECURSIVE FilterCourses(_, _)
\* get_student_courses_filtered: filtered_courses, in stored order
FilterCourses(courses, f) ==
    IF courses = << >> THEN << >>
    ELSE IF PassesFilter(Head(courses), f)
         THEN <<Head(courses)>> \o FilterCourses(Tail(courses), f)
         ELSE FilterCourses(Tail(courses), f)

\* a list that reads the fields of each listed course from the Course table
ListResponseLive(sc, f) ==
    LET live == [i \in 1..Len(sc.courses) |->
                   IF sc.courses[i].id \in DOMAIN catalog
                   THEN CourseData(sc.courses[i].id) ELSE sc.courses[i]]
    IN  IF sc.exists
        THEN [status |-> 200, body |-> FilterCourses(live, f)]
        ELSE [status |-> 500, body |-> << >>]

\* get_student_courses_filtered: the response for a user with a profile.
\* With no StudentCourse row the except branch reads semester, year and
\* course_type before they are assigned, and the request ends in a 500.
ListResponse(sc, f) ==
    IF sc.exists
    THEN [status |-> 200, body |-> FilterCourses(sc.courses, f)]
    ELSE [status |-> 500, body |-> << >>]

\* ------------------------------------------------------------------
\* Requests and responses
\* ------------------------------------------------------------------

Response(op, u, c, X, status, error, body) ==
    [op |-> op, user |-> u, course |-> c, X |-> X, status |-> status,
     error |-> error, body |-> body]

\* Student.objects.get(user=request.user) raised DoesNotExist
NoProfile(op, u, c) ==
    /\ u \notin profile
    /\ lastOp' = Response(op, u, c, << >>, 404, "Student profile not found", << >>)
    /\ UNCHANGED <<catalog, student, req, profile, has_courses,
                    student_course, rows>>

\* a Student row: its uuid is named after the worker that drew it and the
\* user; year stands for the fields of the body (university, college,
\* program, year, semester)
NewStudent(r, u, y) == [id |-> <<r, u>>, user |-> u, year |-> y]

\* workers that serve requests statement by statement
Reqs == {"r1", "r2"}

\* a worker between requests
Idle ==
    [pc |-> "idle", op |-> "-", user |-> "-", year |-> 0, id |-> "-",
     X |-> << >>, sc |-> NoRecord]

Init ==
    /\ catalog = InitialCatalog
    /\ student = {}
    /\ req = [r \in Reqs |-> Idle]
    /\ profile = {}
    /\ has_courses = [u \in Users |-> FALSE]
    /\ student_course = [u \in Users |-> NoRecord]
    /\ rows = {}
    /\ lastOp = Response("init", "-", "-", << >>, 0, "", << >>)

\* ------------------------------------------------------------------
\* JSON design: StudentCourse methods
\* ------------------------------------------------------------------

\* StudentCourse.add_course(course_data): False when a snapshot of the
\* course is in the list, else the snapshot is appended and True
AddCourseOk(courses, course_data) == ~HasCourse(courses, course_data.id)

AddCourseList(courses, course_data) ==
    IF AddCourseOk(courses, course_data)
    THEN Append(courses, course_data)
    ELSE courses

\* StudentCourse.remove_course(course_id): True when a snapshot of the
\* course was in the list and has been taken out
RemoveCourseOk(courses, id) == HasCourse(courses, id)

RemoveCourseList(courses, id) == WithoutCourse(courses, id)

\* a save whose flag update is left to a later step: the record is written
\* while the flag still tells of the list before the write
SaveStudentCourseStaleFlag(u, courses) ==
    /\ student_course' = [student_course EXCEPT
                            ![u] = [exists |-> TRUE, courses |-> courses]]
    /\ has_courses' = [has_courses EXCEPT
                         ![u] = SyncedFlag(student_course[u].courses)]

\* a save that writes the record and leaves the flag alone
SaveStudentCourseNoSync(u, courses) ==
    /\ student_course' = [student_course EXCEPT
                            ![u] = [exists |-> TRUE, courses |-> courses]]
    /\ UNCHANGED has_courses

\* student_course.save() of the JSON design: the record is written and the
\* flag of its student follows the list
SaveStudentCourse(u, courses) ==
    /\ student_course' = [student_course EXCEPT
                            ![u] = [exists |-> TRUE, courses |-> courses]]
    /\ has_courses' = [has_courses EXCEPT ![u] = SyncedFlag(courses)]

\* the row get_or_create made stays, nothing else is written
KeepRecord(u, sc) ==
    /\ student_course' = [student_course EXCEPT ![u] = sc]
    /\ UNCHANGED has_courses

\* ------------------------------------------------------------------
\* Student profile
\* ------------------------------------------------------------------

\* student_profile_create: 400 when the user has a profile or the body is
\* invalid, else the Student row is created
StudentProfileCreate(u, valid) ==
    /\ IF u \in profile
       THEN /\ lastOp' = Response("profile_create", u, "-", << >>, 400,
                                  "Student profile already exists", << >>)
            /\ UNCHANGED <<student, profile, has_courses>>
       ELSE IF valid
            THEN /\ student' = student \cup {NewStudent("r0", u, 1)}
                 /\ profile' = profile \cup {u}
                 /\ has_courses' = [has_courses EXCEPT ![u] = FALSE]
                 /\ lastOp' = Response("profile_create", u, "-", << >>, 201,
                                       "", << >>)
            ELSE /\ lastOp' = Response("profile_create", u, "-", << >>, 400,
                                       "Validation failed", << >>)
                 /\ UNCHANGED <<student, profile, has_courses>>
    /\ UNCHANGED <<catalog, req, student_course, rows>>

\* ------------------------------------------------------------------
\* JSON design: the views
\* ------------------------------------------------------------------

\* student_courses GET
StudentCoursesGet(u) ==
    \/ NoProfile("get", u, "-")
    \/ /\ u \in profile
       /\ LET sc == GetOrCreate(student_course[u]) IN
          /\ KeepRecord(u, sc)
          /\ lastOp' = Response("get", u, "-", << >>, 200, "", sc.courses)
       /\ UNCHANGED <<catalog, student, req, profile, rows>>

\* a view that answers 201 whatever add_course returned
PostStatusAlwaysCreated(added) == 201

\* student_courses POST: the status of the response after add_course
PostStatus(added) == IF added THEN 201 ELSE 400

\* student_courses POST
StudentCoursesPost(u, id) ==
    \/ NoProfile("add", u, id)
    \/ /\ u \in profile
       /\ LET sc == GetOrCreate(student_course[u]) IN
          IF id = NotAUuid
          THEN \* CourseAddSerializer is invalid
               /\ KeepRecord(u, sc)
               /\ lastOp' = Response("add", u, id, << >>, 400,
                                     "course_id", << >>)
          ELSE IF id \notin DOMAIN catalog
          THEN \* get_object_or_404
               /\ KeepRecord(u, sc)
               /\ lastOp' = Response("add", u, id, << >>, 404,
                                     "Not found", << >>)
          ELSE LET added == AddCourseOk(sc.courses, CourseData(id))
                   new == AddCourseList(sc.courses, CourseData(id)) IN
               /\ Len(new) <= MaxCourses
               /\ IF added
                  THEN SaveStudentCourse(u, new)
                  ELSE KeepRecord(u, sc)
               /\ lastOp' = Response("add", u, id, << >>, PostStatus(added),
                                     IF added THEN "" ELSE "Course already added",
                                     IF added THEN <<CourseData(id)>> ELSE << >>)
       /\ UNCHANGED <<catalog, student, req, profile, rows>>

\* a PUT that stores the valid items of a list it rejects
PutStoredPartial(courses, X) == FormatPut(SelectSeq(X, ValidCourseData))

\* student_courses PUT: the list the record holds when the view returns
PutStored(courses, X) == IF ValidCourses(X) THEN FormatPut(X) ELSE courses

\* the store failed (StoreUnavailable) before the request wrote anything
StoreFailsEarly(op, u) ==
    /\ u \in profile
    /\ lastOp' = Response(op, u, "-", << >>, 500, "StoreUnavailable", << >>)
    /\ UNCHANGED <<catalog, student, req, profile, has_courses,
                    student_course, rows>>

\* student_courses PUT
StudentCoursesPut(u, X) ==
    \/ NoProfile("put", u, "-")
    \/ StoreFailsEarly("put", u)
    \/ /\ u \in profile
       /\ LET sc == GetOrCreate(student_course[u]) IN
          IF ValidCourses(X)
          THEN \/ /\ SaveStudentCourse(u, PutStored(sc.courses, X))
                  /\ lastOp' = Response("put", u, "-", X, 200, "",
                                        PutStored(sc.courses, X))
               \/ \* student_course.save() raised
                  /\ KeepRecord(u, sc)
                  /\ lastOp' = Response("put", u, "-", << >>, 500,
                                        "StoreUnavailable", << >>)
          ELSE /\ KeepRecord(u, [sc EXCEPT !.courses = PutStored(sc.courses, X)])
               /\ lastOp' = Response("put", u, "-", << >>, 400, "courses", << >>)
       /\ UNCHANGED <<catalog, student, req, profile, rows>>

\* a batch that stores the items formatted before the loop raised
BatchStoredPartial(courses, X) == FormatBatch(SelectSeq(X, IsDict))

\* save_courses_batch: the list the record holds when the view returns
BatchStored(courses, X) ==
    IF \A i \in 1..Len(X) : IsDict(X[i]) THEN FormatBatch(X) ELSE courses

\* save_courses_batch
SaveCoursesBatch(u, X) ==
    \/ /\ X = << >>
       /\ lastOp' = Response("batch", u, "-", << >>, 400,
                             "No courses provided", << >>)
       /\ UNCHANGED <<catalog, student, req, profile, has_courses,
                    student_course, rows>>
    \/ /\ X # << >>
       /\ NoProfile("batch", u, "-")
    \/ /\ X # << >>
       /\ StoreFailsEarly("batch", u)
    \/ /\ X # << >>
       /\ u \in profile
       /\ LET sc == GetOrCreate(student_course[u]) IN
          IF \A i \in 1..Len(X) : IsDict(X[i])
          THEN \/ /\ SaveStudentCourse(u, BatchStored(sc.courses, X))
                  /\ lastOp' = Response("batch", u, "-", X, 201, "",
                                        BatchStored(sc.courses, X))
               \/ \* student_course.save() raised, caught by except Exception
                  /\ KeepRecord(u, sc)
                  /\ lastOp' = Response("batch", u, "-", << >>, 500,
                                        "StoreUnavailable", << >>)
          ELSE \* course_data.get raises, caught by except Exception
               /\ KeepRecord(u, [sc EXCEPT !.courses = BatchStored(sc.courses, X)])
               /\ lastOp' = Response("batch", u, "-", << >>, 500,
                                     "exception", << >>)
       /\ UNCHANGED <<catalog, student, req, profile, rows>>

\* a view that answers 200 whenever the student has a record
RemoveStatusIgnoringResult(exists, removed) == IF exists THEN 200 ELSE 404

\* remove_course: the status of the response
RemoveStatus(exists, removed) == IF exists /\ removed THEN 200 ELSE 404

\* remove_course
RemoveCourse(u, id) ==
    \/ NoProfile("remove", u, id)
    \/ /\ u \in profile
       /\ LET sc == student_course[u]
              removed == sc.exists /\ RemoveCourseOk(sc.courses, id) IN
          /\ IF removed
             THEN SaveStudentCourse(u, RemoveCourseList(sc.courses, id))
             ELSE UNCHANGED <<student_course, has_courses>>
          /\ lastOp' = Response("remove", u, id, << >>,
                                RemoveStatus(sc.exists, removed),
                                IF ~sc.exists THEN "No courses found"
                                ELSE IF removed THEN "" ELSE "Course not found",
                                << >>)
       /\ UNCHANGED <<catalog, student, req, profile, rows>>

\* get_student_courses_filtered
GetStudentCoursesFiltered(u, f) ==
    \/ NoProfile("list", u, "-")
    \/ /\ u \in profile
       /\ LET r == ListResponse(student_course[u], f) IN
          lastOp' = Response("list", u, "-", <<f>>, r.status, "", r.body)
       /\ UNCHANGED <<catalog, student, req, profile, has_courses,
                    student_course, rows>>

\* ------------------------------------------------------------------
\* The enrollment ledger as the views serve it
\* ------------------------------------------------------------------

Next ==
    \/ \E u \in Users, valid \in BOOLEAN : StudentProfileCreate(u, valid)
    \/ \E u \in Users : StudentCoursesGet(u)
    \/ \E u \in Users, id \in CourseIds \cup {UnknownId, NotAUuid} :
          StudentCoursesPost(u, id)
    \/ \E u \in Users, X \in PutInputs : StudentCoursesPut(u, X)
    \/ \E u \in Users, X \in BatchInputs : SaveCoursesBatch(u, X)
    \/ \E u \in Users, id \in CourseIds \cup {UnknownId} : RemoveCourse(u, id)
    \/ \E u \in Users, f \in Filters : GetStudentCoursesFiltered(u, f)

Spec == Init /\ [][Next]_vars

\* ------------------------------------------------------------------
\* Normalized design: StudentCourse rows with grade and points
\* ------------------------------------------------------------------

\* StudentCourse.GRADE_CHOICES
GRADE_CHOICES == {"A", "B+", "B", "C", "D", "E", "F"}

\* StudentCourse.GRADE_POINTS, in tenths
GRADE_POINTS ==
    [g \in GRADE_CHOICES |->
        CASE g = "A" -> 50 [] g = "B+" -> 45 [] g = "B" -> 40 [] g = "C" -> 30
          [] g = "D" -> 20 [] g = "E" -> 10 [] g = "F" -> 0]

\* self.GRADE_POINTS.get(self.grade, 0.0)
GradePointsGet(grade) ==
    IF grade \in DOMAIN GRADE_POINTS THEN GRADE_POINTS[grade] ELSE 0

\* a save that keeps points the caller has set
SavePointsTrusting(grade, points) ==
    IF grade # NULL /\ points = NoPoints THEN GradePointsGet(grade) ELSE points

\* StudentCourse.save: the points stored for an instance that holds this
\* grade and these points when save() is called
SavePoints(grade, points) ==
    IF grade # NULL THEN GradePointsGet(grade) ELSE points

\* StudentCourse.save: the grade stored
SaveGrade(grade) == grade

\* grades a caller assigns: the scale, None, and a value outside the scale
GradeInputs == GRADE_CHOICES \cup {NULL, "X"}

\* what a caller does with the points attribute before save(): leaves it,
\* or assigns None or 2.5
PointsInputs ==
    { [assign |-> FALSE, value |-> NoPoints],
      [assign |-> TRUE, value |-> NoPoints],
      [assign |-> TRUE, value |-> 25] }

\* the rows of one student (student.student_courses)
StudentRows(u) == {r \in rows : r.student = u}

\* the row unique_together allows for a (student, course) pair
RowOf(u, c) == CHOOSE r \in rows : r.student = u /\ r.course = c

HasRow(u, c) == \E r \in rows : r.student = u /\ r.course = c

\* StudentCourse(student, course, grade, points).save(): a new row.
\* The foreign keys and unique_together reject the insert with an
\* IntegrityError.
StudentCourseCreate(u, c, g, p) ==
    /\ IF u \in profile /\ c \in DOMAIN catalog /\ ~HasRow(u, c)
       THEN /\ Cardinality(rows) < MaxRows
            /\ rows' = rows \cup {[student |-> u, course |-> c,
                                   grade |-> SaveGrade(g),
                                   points |-> SavePoints(g, p)]}
            /\ lastOp' = Response("create", u, c,
                                  <<[grade |-> g, points |-> p]>>, 200, "", << >>)
       ELSE /\ UNCHANGED rows
            /\ lastOp' = Response("create", u, c, << >>, 500,
                                  "IntegrityError", << >>)
    /\ UNCHANGED <<catalog, student, req, profile, has_courses,
                 student_course>>

\* setGrade: the row is loaded, grade (and perhaps points) assigned, and
\* save() called
StudentCourseSave(u, c, g, pin) ==
    /\ IF HasRow(u, c)
       THEN LET row == RowOf(u, c)
                held == IF pin.assign THEN pin.value ELSE row.points IN
            /\ rows' = (rows \ {row}) \cup
                          {[student |-> u, course |-> c,
                            grade |-> SaveGrade(g),
                            points |-> SavePoints(g, held)]}
            /\ lastOp' = Response("setGrade", u, c,
                                  <<[grade |-> g, points |-> held]>>, 200, "",
                                  << >>)
       ELSE /\ UNCHANGED rows
            /\ lastOp' = Response("setGrade", u, c, << >>, 404,
                                  "DoesNotExist", << >>)
    /\ UNCHANGED <<catalog, student, req, profile, has_courses,
                 student_course>>

\* a query without the student filter
FilterStudentNone(u) == rows

\* StudentCourse.objects.filter(student=student)
FilterStudent(u) == {r \in rows : r.student = u}

\* a reset that leaves the rows that have a grade as they are
ResetRowUngradedOnly(r) ==
    IF r.grade = NULL
    THEN [r EXCEPT !.grade = SaveGrade("A"),
                   !.points = SavePoints("A", r.points)]
    ELSE r

\* reset_grades: student_course.grade = 'A'; student_course.save()
ResetRow(r) ==
    [r EXCEPT !.grade = SaveGrade("A"), !.points = SavePoints("A", r.points)]

\* reset_grades: every row of the student gets grade 'A' and is saved
ResetGrades(u) ==
    \/ NoProfile("reset", u, "-")
    \/ /\ u \in profile
       /\ rows' = {IF r \in FilterStudent(u) THEN ResetRow(r) ELSE r :
                      r \in rows}
       /\ lastOp' = Response("reset", u, "-", << >>, 200, "",
                             <<Cardinality(StudentRows(u))>>)
       /\ UNCHANGED <<catalog, student, req, profile, has_courses,
                 student_course>>

NextGrades ==
    \/ \E u \in Users, valid \in BOOLEAN : StudentProfileCreate(u, valid)
    \/ \E u \in Users, c \in CourseIds \cup {UnknownId},
          g \in GradeInputs, p \in {NoPoints, 25} :
          StudentCourseCreate(u, c, g, p)
    \/ \E u \in Users, c \in CourseIds, g \in GradeInputs, pin \in PointsInputs :
          StudentCourseSave(u, c, g, pin)
    \/ \E u \in Users : ResetGrades(u)

SpecGrades == Init /\ [][NextGrades]_vars

\* ------------------------------------------------------------------
\* Properties of the grade and points pair (SpecGrades)
\* ------------------------------------------------------------------

\* the request just served wrote a row (create or setGrade) with this grade
WroteGrade(g) ==
    /\ lastOp.op \in {"create", "setGrade"}
    /\ lastOp.status = 200
    /\ lastOp.X[1].grade = g

\* C1: in every reachable state every enrollment has points = NULL if and
\* only if its grade = NULL, also after a write that clears a grade.
C1_PointsNullIffGradeNull ==
    \A r \in rows : (r.points = NoPoints) <=> (r.grade = NULL)

\* the scale of the specification, in tenths: A=5.0, B+=4.5, B=4.0, C=3.0,
\* D=2.0, E=1.0, F=0.0
C2_Scale ==
    [g \in {"A", "B+", "B", "C", "D", "E", "F"} |->
        CASE g = "A" -> 50 [] g = "B+" -> 45 [] g = "B" -> 40 [] g = "C" -> 30
          [] g = "D" -> 20 [] g = "E" -> 10 [] g = "F" -> 0]

\* C2: immediately after a save with a grade g of the fixed scale the
\* enrollment's points is the scale's value for g, whatever points the
\* enrollment held or the caller supplied before the write.
C2_PointsFollowGrade ==
    \A g \in DOMAIN C2_Scale :
        WroteGrade(g) =>
            /\ HasRow(lastOp.user, lastOp.course)
            /\ RowOf(lastOp.user, lastOp.course).grade = g
            /\ RowOf(lastOp.user, lastOp.course).points = C2_Scale[g]

\* C2 witness: a setGrade to B+ on an instance whose points attribute held
\* 2.5 when save() was called
C2_Witness ==
    /\ lastOp.op = "setGrade"
    /\ WroteGrade("B+")
    /\ lastOp.X[1].points = 25
    /\ RowOf(lastOp.user, lastOp.course).points = 45

\* C3: setGrade with a grade outside the 7-value scale fails with
\* InvalidGrade and leaves the prior grade and points unchanged.
C3_InvalidGradeRejected ==
    [][ ( /\ lastOp'.op = "setGrade"
          /\ lastOp'.X # << >>
          /\ lastOp'.X[1].grade \notin DOMAIN C2_Scale \cup {NULL} )
        => ( /\ lastOp'.status # 200
             /\ lastOp'.error = "InvalidGrade"
             /\ rows' = rows ) ]_vars

\* ------------------------------------------------------------------
\* Properties of the enrollment ledger (Spec)
\* ------------------------------------------------------------------

\* the enrollments of a student: the snapshots of the student's record
Ledger(u) == student_course[u].courses

\* what list(student, {}) returns in this state
ListAll(u) == ListResponse(student_course[u], NoFilter).body

\* C4: in every reachable state a student's ledger holds at most one
\* enrollment per course, also after a bulkReplace whose list names a
\* course twice.
C4_UniqueCoursePerStudent ==
    \A u \in Users :
        \A i, j \in 1..Len(Ledger(u)) :
            Ledger(u)[i].id = Ledger(u)[j].id => i = j

\* C5: add on a (student, course) pair that is already enrolled fails with
\* DuplicateEnrollment and leaves the ledger, grades and points as they were.
C5_DuplicateAddFails ==
    [][ ( /\ lastOp'.op = "add"
          /\ HasCourse(Ledger(lastOp'.user), lastOp'.course) )
        => ( /\ lastOp'.status = 400
             /\ lastOp'.error = "Course already added"
             /\ student_course' = student_course
             /\ has_courses' = has_courses
             /\ rows' = rows ) ]_vars

\* C5 witness: an add of a course the student already has was answered
C5_Witness ==
    /\ lastOp.op = "add"
    /\ lastOp.error = "Course already added"
    /\ HasCourse(Ledger(lastOp.user), lastOp.course)

\* C6: add with a course id that is in no Course row fails with NotFound
\* and creates no enrollment and no other ledger record; a successful add
\* creates exactly one new enrollment, whose grade is NULL.
C6_AddNotFoundWritesNothing ==
    [][ ( /\ lastOp'.op = "add"
          /\ lastOp'.user \in profile )
        => LET u == lastOp'.user
               id == lastOp'.course
               before == student_course[u].courses
               after == student_course'[u].courses IN
           /\ (id # NotAUuid /\ id \notin DOMAIN catalog)
                 => /\ lastOp'.status = 404
                    /\ student_course' = student_course
                    /\ has_courses' = has_courses
                    /\ rows' = rows
           /\ lastOp'.status = 201
                 => /\ Len(after) = Len(before) + 1
                    /\ SubSeq(after, 1, Len(before)) = before
                    /\ after[Len(after)].id = id
                    /\ Get(after[Len(after)], "grade") = NULL ]_vars

\* C7: remove returns true exactly when an enrollment of the course was in
\* the student's ledger before the call; afterwards list(student, {}) does
\* not show the course, and every other enrollment is still there, unchanged.
C7_Remove ==
    [][ lastOp'.op = "remove"
        => LET u == lastOp'.user
               id == lastOp'.course
               before == student_course[u].courses
               listed == ListResponse(student_course'[u], NoFilter).body IN
           /\ (lastOp'.status = 200)
                 <=> (\E i \in 1..Len(before) : before[i].id = id)
           /\ \A i \in 1..Len(listed) : listed[i].id # id
           /\ student_course'[u].courses = SelectSeq(before, LAMBDA e : e.id # id)
           /\ \A v \in Users \ {u} : student_course'[v] = student_course[v] ]_vars

\* C7 witness: a remove took one course out of a ledger of two
C7_Witness ==
    /\ lastOp.op = "remove"
    /\ lastOp.status = 200
    /\ Len(Ledger(lastOp.user)) = 1
    /\ Ledger(lastOp.user)[1].id # lastOp.course

DistinctPutIds(X) == \A i, j \in 1..Len(X) : X[i].id = X[j].id => i = j

\* the ids of the list are pairwise distinct (batch body)
DistinctBatchIds(X) ==
    \A i, j \in 1..Len(X) : X[i].course_id = X[j].course_id => i = j

\* C9: round trip: after bulkReplace(student, X) with pairwise distinct
\* course ids, list(student, {}) returns exactly X: the same courses with
\* the same id, code, name, credits, type, semester and year, and nothing
\* else.
C9_BulkReplaceRoundTrip ==
    LET X == lastOp.X
        L == ListAll(lastOp.user) IN
    /\ (lastOp.op = "put" /\ lastOp.status = 200 /\ DistinctPutIds(X))
          => /\ Len(L) = Len(X)
             /\ \A i \in 1..Len(X) :
                   /\ L[i].id = X[i].id
                   /\ L[i].code = X[i].code
                   /\ L[i].name = X[i].name
                   /\ L[i].credits = ParseInt(X[i].credits)
                   /\ L[i].type = X[i].type
                   /\ L[i].semester = ParseInt(X[i].semester)
                   /\ L[i].year = ParseInt(X[i].year)
    /\ (lastOp.op = "batch" /\ lastOp.status = 201 /\ DistinctBatchIds(X))
          => /\ Len(L) = Len(X)
             /\ \A i \in 1..Len(X) :
                   /\ L[i].id = X[i].course_id
                   /\ L[i].code = X[i].course_code
                   /\ L[i].name = X[i].course_name
                   /\ L[i].credits = X[i].credit_hour
                   /\ L[i].type = (IF X[i].is_elective THEN "elective" ELSE "core")
                   /\ L[i].semester = X[i].semester
                   /\ L[i].year = X[i].year

\* C9 witness: a PUT of two distinct courses was stored
C9_Witness ==
    /\ lastOp.op = "put"
    /\ lastOp.status = 200
    /\ Len(lastOp.X) = 2
    /\ DistinctPutIds(lastOp.X)
    /\ Len(ListAll(lastOp.user)) = 2

\* C10: bulkReplace is all-or-nothing: a call that fails (an invalid
\* snapshot in the list, a missing student, a store failure part-way)
\* leaves every ledger as it was, and no step of a bulkReplace leaves a
\* ledger that is neither the old list nor the whole new one.
C10_BulkReplaceAllOrNothing ==
    [][ lastOp'.op \in {"put", "batch"}
        => LET ok == lastOp'.status \in {200, 201} IN
           /\ ~ok => /\ \A u \in Users :
                           student_course'[u].courses = student_course[u].courses
                     /\ has_courses' = has_courses
                     /\ rows' = rows
           /\ \A u \in Users :
                 \/ student_course'[u].courses = student_course[u].courses
                 \/ /\ ok
                    /\ u = lastOp'.user
                    /\ Len(student_course'[u].courses) = Len(lastOp'.X) ]_vars

\* C10 witness: a bulkReplace failed part-way and the old list of two
\* courses is still the ledger
C10_Witness ==
    /\ lastOp.op \in {"put", "batch"}
    /\ lastOp.status \in {400, 500}
    /\ lastOp.error \in {"courses", "exception", "StoreUnavailable"}
    /\ Len(Ledger(lastOp.user)) = 2

\* ------------------------------------------------------------------
\* GPA engine and target planner (normalized design)
\*
\* A GPA, a target and a sum of contributions are hundredths held as
\* integers (4.43 is 443); points stay tenths (5.0 is 50).
\* ------------------------------------------------------------------

Abs(x) == IF x < 0 THEN -x ELSE x

\* round(n / d, 2) for n given in hundredths and d > 0: the nearest
\* hundredth, a tie going to the even one as Python's round does for a
\* quotient that is a double
Round2(n, d) ==
    LET q == n \div d
        r == n % d
    IN  IF 2 * r < d THEN q
        ELSE IF 2 * r > d THEN q + 1
        ELSE IF q % 2 = 0 THEN q ELSE q + 1

\* a queryset iterated: the rows in the one order the database returns
RECURSIVE QuerySeq(_)
QuerySeq(S) ==
    IF S = {} THEN << >>
    ELSE LET r == CHOOSE x \in S : TRUE IN <<r>> \o QuerySeq(S \ {r})

\* self.student_courses.filter(points__isnull=False)
PointsNotNull(u) == {r \in StudentRows(u) : r.points # NoPoints}

\* total_points += student_course.points * student_course.course.credits
\* (tenths)
RECURSIVE TotalPoints(_)
TotalPoints(q) ==
    IF q = << >> THEN 0
    ELSE Head(q).points * catalog[Head(q).course].credits + TotalPoints(Tail(q))

\* total_credits += student_course.course.credits
RECURSIVE TotalCredits(_)
TotalCredits(q) ==
    IF q = << >> THEN 0
    ELSE catalog[Head(q).course].credits + TotalCredits(Tail(q))

\* Student.get_gpa
GetGpa(u) ==
    LET q == QuerySeq(PointsNotNull(u))
    IN  IF q = << >> THEN 0
        ELSE IF TotalCredits(q) = 0 THEN 0
        ELSE Round2(TotalPoints(q) * 10, TotalCredits(q))

\* one entry of the breakdown list; contribution in hundredths
BreakdownEntry(r) ==
    [course_code |-> catalog[r.course].code,
     course_name |-> catalog[r.course].name,
     credits |-> catalog[r.course].credits,
     grade |-> r.grade,
     points |-> r.points,
     contribution |-> r.points * catalog[r.course].credits * 10]

\* Student.get_gpa_breakdown
GetGpaBreakdown(u) ==
    LET q == QuerySeq(PointsNotNull(u))
    IN  [gpa |-> IF TotalCredits(q) > 0
                 THEN Round2(TotalPoints(q) * 10, TotalCredits(q)) ELSE 0,
         total_credits |-> TotalCredits(q),
         total_points |-> TotalPoints(q) * 10,
         graded_courses |-> Cardinality(PointsNotNull(u)),
         breakdown |-> [i \in 1..Len(q) |-> BreakdownEntry(q[i])]]

\* GET students/gpa/
CalculateGpa(u) ==
    \/ NoProfile("gpa", u, "-")
    \/ /\ u \in profile
       /\ lastOp' = Response("gpa", u, "-", << >>, 200, "",
                             <<GetGpaBreakdown(u)>>)
       /\ UNCHANGED <<catalog, student, req, profile, has_courses,
                    student_course, rows>>

\* targets a caller posts, in hundredths: -0.1, 0.0, 4.0, 4.33, 4.5, 4.73,
\* 4.9, 5.0, 5.1
TargetInputs == {-10, 0, 400, 433, 450, 473, 490, 500, 510}

\* a serializer without the upper limit
TargetValidNoMax(t) == 0 <= t

\* TargetGPASerializer: FloatField(min_value=0.0, max_value=5.0)
TargetValid(t) == 0 <= t /\ t <= 500

\* 'A' if target_gpa >= 4.5 else 'B+' if target_gpa >= 4.0 else 'B'
RequiredGrade(t) ==
    IF t >= 450 THEN "A" ELSE IF t >= 400 THEN "B+" ELSE "B"

\* proposals for every row of the student, graded or not
TargetGradesAllRows(u, t) ==
    LET q == QuerySeq(StudentRows(u))
    IN  [i \in 1..Len(q) |->
            [course_id |-> q[i].course,
             course_code |-> catalog[q[i].course].code,
             course_name |-> catalog[q[i].course].name,
             credits |-> catalog[q[i].course].credits,
             required_grade |-> RequiredGrade(t),
             required_points |-> GRADE_POINTS[RequiredGrade(t)]]]

\* the grades list: one entry per row of the student with `not grade`
TargetGrades(u, t) ==
    LET q == QuerySeq({r \in StudentRows(u) : r.grade = NULL})
    IN  [i \in 1..Len(q) |->
            [course_id |-> q[i].course,
             course_code |-> catalog[q[i].course].code,
             course_name |-> catalog[q[i].course].name,
             credits |-> catalog[q[i].course].credits,
             required_grade |-> RequiredGrade(t),
             required_points |-> GRADE_POINTS[RequiredGrade(t)]]]

\* pairs (gpa, target) of the model's values whose difference is 0.1 in
\* decimal arithmetic and 0.09999999999999964 in doubles
RoundsBelow == {<<443, 433>>, <<500, 490>>, <<500, 510>>}

\* abs(current_gpa - target_gpa) < th for th 0.1 or 0.3, on doubles: on
\* the model's values the decimal comparison, but for the pairs above
DiffBelow(gpa, t, th) ==
    \/ Abs(gpa - t) < th
    \/ Abs(gpa - t) = th /\ <<gpa, t>> \in RoundsBelow

\* an accuracy whose thresholds are inclusive
AccuracyInclusive(gpa, t) ==
    IF Abs(gpa - t) <= 10 THEN "excellent"
    ELSE IF Abs(gpa - t) <= 30 THEN "good"
    ELSE "needs_improvement"

\* "excellent" if abs(current_gpa - target_gpa) < 0.1 else "good" if
\* abs(current_gpa - target_gpa) < 0.3 else "needs_improvement"
Accuracy(gpa, t) ==
    IF DiffBelow(gpa, t, 10) THEN "excellent"
    ELSE IF DiffBelow(gpa, t, 30) THEN "good"
    ELSE "needs_improvement"

\* a planner that saves the grade it proposes on every ungraded row
PlanStoredApplied(u, t) ==
    {IF r.student = u /\ r.grade = NULL
     THEN [r EXCEPT !.grade = RequiredGrade(t),
                    !.points = GRADE_POINTS[RequiredGrade(t)]]
     ELSE r : r \in rows}

\* the rows generate_target_gpa leaves: it calls no save()
PlanStored(u, t) == rows

\* POST students/gpa/target/
GenerateTargetGpa(u, t) ==
    \/ NoProfile("plan", u, "-")
    \/ /\ u \in profile
       /\ TargetValid(t)
       /\ rows' = PlanStored(u, t)
       /\ lastOp' = Response("plan", u, "-", <<t>>, 200, "",
                             <<[target_gpa |-> t,
                                actual_gpa |-> GetGpa(u),
                                accuracy |-> Accuracy(GetGpa(u), t),
                                grades |-> TargetGrades(u, t)]>>)
       /\ UNCHANGED <<catalog, student, req, profile, has_courses,
                 student_course>>
    \/ /\ u \in profile
       /\ ~TargetValid(t)
       /\ lastOp' = Response("plan", u, "-", <<t>>, 400, "target_gpa", << >>)
       /\ UNCHANGED <<catalog, student, req, profile, has_courses,
                    student_course, rows>>

\* grades the rows of the GPA specification carry
GpaGrades == {"A", "B", NULL}

\* rows as StudentCourse(student, course, grade).save() creates them
CreatedRows(p) ==
    {[student |-> u, course |-> c, grade |-> SaveGrade(g),
      points |-> SavePoints(g, NoPoints)] :
        u \in p, c \in CourseIds, g \in GpaGrades}

\* the row sets unique_together allows
UniqueTogether(S) ==
    \A r1, r2 \in S :
        (r1.student = r2.student /\ r1.course = r2.course) => r1 = r2

\* the state after some users created a profile and enrolled
InitGpa ==
    /\ catalog = InitialCatalog
    /\ profile \in {{"u1"}, Users}
    /\ student = {NewStudent("r0", u, 1) : u \in profile}
    /\ req = [r \in Reqs |-> Idle]
    /\ has_courses = [u \in Users |-> FALSE]
    /\ student_course = [u \in Users |-> NoRecord]
    /\ rows \in {S \in SUBSET CreatedRows(profile) :
                    UniqueTogether(S) /\ Cardinality(S) <= MaxGpaRows}
    /\ lastOp = Response("init", "-", "-", << >>, 0, "", << >>)

NextGpa ==
    \/ \E u \in Users, c \in CourseIds, g \in GpaGrades :
          StudentCourseSave(u, c, g, [assign |-> FALSE, value |-> NoPoints])
    \/ \E u \in Users : ResetGrades(u)
    \/ \E u \in Users : CalculateGpa(u)
    \/ \E u \in Users, t \in TargetInputs : GenerateTargetGpa(u, t)

SpecGpa == InitGpa /\ [][NextGpa]_vars

\* ------------------------------------------------------------------
\* Properties of the GPA engine and the planner (SpecGpa)
\* ------------------------------------------------------------------

\* the student's enrollments with a grade
Graded(u) == {r \in StudentRows(u) : r.grade # NULL}

\* the last request was a plan the student's profile was found for
Planned == lastOp.op = "plan" /\ lastOp.status # 404

\* C11: for every student with zero graded enrollments (no enrollments at
\* all, or only enrollments with grade NULL), computeGPA returns 0.0; so
\* does the actual_gpa a plan reports for such a student.
C11_ZeroGradedGpaZero ==
    /\ \A u \in profile : Graded(u) = {} => GetGpa(u) = 0
    /\ (Planned /\ lastOp.status = 200 /\ Graded(lastOp.user) = {})
          => lastOp.body[1].actual_gpa = 0

\* sum over a set of graded enrollments of scale[grade] x credits (tenths)
RECURSIVE ScalePoints(_)
ScalePoints(S) ==
    IF S = {} THEN 0
    ELSE LET r == CHOOSE x \in S : TRUE
         IN  C2_Scale[r.grade] * catalog[r.course].credits
                + ScalePoints(S \ {r})

\* sum of the credits of a set of enrollments
RECURSIVE SumCredits(_)
SumCredits(S) ==
    IF S = {} THEN 0
    ELSE LET r == CHOOSE x \in S : TRUE
         IN  catalog[r.course].credits + SumCredits(S \ {r})

\* C12: for every student with at least one graded enrollment, computeGPA is
\* the sum over exactly the enrollments with non-NULL grade of
\* scale[grade] x credits, divided by the sum of their credits, rounded to
\* 2 decimals; enrollments with grade NULL contribute to neither sum.
C12_GpaFormula ==
    \A u \in profile :
        Graded(u) # {} =>
            GetGpa(u) = Round2(ScalePoints(Graded(u)) * 10,
                               SumCredits(Graded(u)))

\* C13: computeBreakdown returns gpa = computeGPA on the same state,
\* graded_count = the number of enrollments with non-NULL grade = the
\* length of the per-course list, total_credits = the credits of the graded
\* enrollments, and each entry's contribution = points x credits.
C13_Breakdown ==
    (lastOp.op = "gpa" /\ lastOp.status = 200) =>
        LET b == lastOp.body[1]
            u == lastOp.user
        IN  /\ b.gpa = GetGpa(u)
            /\ b.graded_courses = Cardinality(Graded(u))
            /\ b.graded_courses = Len(b.breakdown)
            /\ b.total_credits = SumCredits(Graded(u))
            /\ \A i \in 1..Len(b.breakdown) :
                  b.breakdown[i].contribution =
                     b.breakdown[i].points * b.breakdown[i].credits * 10

\* C14: plan fails with InvalidRange for every target below 0.0 or above
\* 5.0 and returns no proposals then; it succeeds for 0.0 and for 5.0.
C14_InvalidRange ==
    Planned =>
        LET t == lastOp.X[1]
        IN  /\ (t < 0 \/ t > 500) =>
                  /\ lastOp.status = 400
                  /\ lastOp.error = "target_gpa"
                  /\ lastOp.body = << >>
            /\ t \in {0, 500} => lastOp.status = 200

\* C14 witness: a plan for 5.1 was refused
C14_Witness ==
    /\ Planned
    /\ lastOp.X = <<510>>
    /\ lastOp.status = 400
    /\ StudentRows(lastOp.user) # {}

\* the threshold rule of the specification
C15_Rule(t) == IF t >= 450 THEN "A" ELSE IF t >= 400 THEN "B+" ELSE "B"

\* C15: for a valid target, plan returns exactly one proposal for each
\* enrollment whose grade is NULL and none for a graded one; every
\* proposal carries the grade the threshold rule gives and its points.
C15_Proposals ==
    (Planned /\ lastOp.status = 200) =>
        LET g == lastOp.body[1].grades
            u == lastOp.user
            t == lastOp.X[1]
        IN  /\ \A r \in StudentRows(u) :
                  Cardinality({i \in 1..Len(g) : g[i].course_id = r.course})
                     = IF r.grade = NULL THEN 1 ELSE 0
            /\ \A i \in 1..Len(g) :
                  /\ HasRow(u, g[i].course_id)
                  /\ g[i].required_grade = C15_Rule(t)
                  /\ g[i].required_points = C2_Scale[C15_Rule(t)]

\* C15 witness: target 5.0, one ungraded course next to a graded one, and
\* the proposal is "A" with 5.0 points
C15_Witness ==
    /\ Planned
    /\ lastOp.status = 200
    /\ lastOp.X = <<500>>
    /\ Graded(lastOp.user) # {}
    /\ Len(lastOp.body[1].grades) = 1
    /\ lastOp.body[1].grades[1].required_grade = "A"
    /\ lastOp.body[1].grades[1].required_points = 50

\* C16: accuracy is "excellent" exactly when |actual - target| < 0.1,
\* "good" exactly when that difference is >= 0.1 and < 0.3, and
\* "needs_improvement" otherwise, the difference being taken in doubles.
C16_Accuracy ==
    (Planned /\ lastOp.status = 200) =>
        LET a == lastOp.body[1].actual_gpa
            t == lastOp.body[1].target_gpa
            acc == lastOp.body[1].accuracy
        IN  /\ acc = "excellent" <=> DiffBelow(a, t, 10)
            /\ acc = "good" <=> (~DiffBelow(a, t, 10) /\ DiffBelow(a, t, 30))
            /\ acc = "needs_improvement" <=> ~DiffBelow(a, t, 30)

\* C16 witness: actual 4.43 against target 5.0 is "needs_improvement"
C16_Witness ==
    /\ Planned
    /\ lastOp.status = 200
    /\ lastOp.body[1].actual_gpa = 443
    /\ lastOp.body[1].target_gpa = 500
    /\ lastOp.body[1].accuracy = "needs_improvement"

\* C17: plan never changes stored state: the enrollments with their grades
\* and points, the flag and every other table are the same after the call
\* as before, for valid and invalid targets, and computeGPA of the student
\* returns the same value.
C17_PlanChangesNothing ==
    [][lastOp'.op = "plan" =>
          /\ rows' = rows
          /\ has_courses' = has_courses
          /\ student_course' = student_course
          /\ profile' = profile
          /\ catalog' = catalog
          /\ \A u \in Users :
                u = lastOp'.user => GetGpa(u)' = GetGpa(u)]_vars

\* C17 witness: a plan for 4.0 proposed B+ for two ungraded enrollments
C17_Witness ==
    /\ Planned
    /\ lastOp.status = 200
    /\ lastOp.X = <<400>>
    /\ Len(lastOp.body[1].grades) = 2
    /\ \A r \in StudentRows(lastOp.user) : r.grade = NULL /\ r.points = NoPoints

\* ------------------------------------------------------------------
\* Listing the ledger (Spec)
\* ------------------------------------------------------------------

\* an enrollment matches a filter: each present field equals the
\* enrollment's field, an absent field imposes nothing
C18_Matches(course, f) ==
    /\ f.semester = NULL \/ course.semester = ParseInt(f.semester)
    /\ f.year = NULL \/ course.year = ParseInt(f.year)
    /\ f.type = NULL \/ course.type = f.type

\* C18: list(student, filter) returns exactly the enrollments of the
\* student that match the filter, in the order they were inserted; the
\* empty filter returns the whole ledger.
C18_ListFilter ==
    (lastOp.op = "list" /\ lastOp.status # 404) =>
        /\ lastOp.status = 200
        /\ lastOp.body =
              SelectSeq(Ledger(lastOp.user),
                        LAMBDA c : C18_Matches(c, lastOp.X[1]))

\* ------------------------------------------------------------------
\* Requests served statement by statement
\*
\* The views open no transaction (no transaction.atomic in the source), so
\* every ORM call commits on its own and the calls of two workers
\* interleave. A worker that has started a request holds its locals in req.
\* ------------------------------------------------------------------

\* users whose requests are interleaved
ConcUsers == {"u1"}

\* the year a create-profile body carries
Years == {1, 2}

\* PUT bodies of the interleaved requests: the empty list and one course
ConcPutInputs == {X \in PutInputs : ValidCourses(X) /\ Len(X) <= 1}

\* the step of a request that has not answered yet
Pending(op, u, c) == Response(op, u, c, << >>, 0, "", << >>)

\* a Student table whose user column carries no unique index
UniqueViolationNever(u) == FALSE

\* OneToOneField(User): the insert of a second Student row for the user
\* violates the unique index
UniqueViolation(u) == \E s \in student : s.user = u

\* student_profile_create / student_profile POST, first statement:
\* Student.objects.get(user=request.user)
ProfileCreateGet(r, u, y) ==
    /\ req[r] = Idle
    /\ IF \E s \in student : s.user = u
       THEN /\ lastOp' = Response("profile_create", u, "-", << >>, 400,
                                  "Student profile already exists", << >>)
            /\ UNCHANGED req
       ELSE /\ req' = [req EXCEPT ![r] =
                          [Idle EXCEPT !.pc = "checked",
                                       !.op = "profile_create",
                                       !.user = u, !.year = y]]
            /\ lastOp' = Pending("profile_create", u, "-")
    /\ UNCHANGED <<catalog, student, profile, has_courses, student_course,
                    rows>>

\* second statement: serializer.save(), the INSERT of the Student row. The
\* IntegrityError of the unique index is caught nowhere: a 500.
ProfileCreateSave(r) ==
    /\ req[r].pc = "checked"
    /\ LET u == req[r].user IN
       IF UniqueViolation(u)
       THEN /\ lastOp' = Response("profile_create", u, "-", << >>, 500,
                                  "IntegrityError", << >>)
            /\ UNCHANGED <<student, profile, has_courses>>
       ELSE /\ student' = student \cup {NewStudent(r, u, req[r].year)}
            /\ profile' = profile \cup {u}
            /\ has_courses' = [has_courses EXCEPT ![u] = FALSE]
            /\ lastOp' = Response("profile_create", u, "-", << >>, 201, "",
                                  << >>)
    /\ req' = [req EXCEPT ![r] = Idle]
    /\ UNCHANGED <<catalog, student_course, rows>>

\* the record a worker holds after its load
Loaded(r, op, u, id, X, sc) ==
    req' = [req EXCEPT ![r] =
               [Idle EXCEPT !.pc = "loaded", !.op = op, !.user = u,
                            !.id = id, !.X = X, !.sc = sc]]

\* student_courses (POST, PUT) and remove_course up to the statement that
\* loads the StudentCourse record: get_or_create, or get
LedgerLoad(r, op, u, id, X) ==
    /\ req[r] = Idle
    /\ \/ NoProfile(op, u, id)
       \/ /\ u \in profile
          /\ op \in {"add", "put"}
          /\ KeepRecord(u, GetOrCreate(student_course[u]))
          /\ Loaded(r, op, u, id, X, GetOrCreate(student_course[u]))
          /\ lastOp' = Pending(op, u, id)
          /\ UNCHANGED <<catalog, student, profile, rows>>
       \/ /\ u \in profile
          /\ op = "remove"
          /\ student_course[u].exists
          /\ Loaded(r, op, u, id, X, student_course[u])
          /\ lastOp' = Pending(op, u, id)
          /\ UNCHANGED <<catalog, student, profile, has_courses,
                          student_course, rows>>
       \/ /\ u \in profile
          /\ op = "remove"
          /\ ~student_course[u].exists
          /\ lastOp' = Response(op, u, id, << >>, RemoveStatus(FALSE, FALSE),
                                "No courses found", << >>)
          /\ UNCHANGED <<catalog, student, req, profile, has_courses,
                          student_course, rows>>

\* the rest of the request: the method works on the instance the worker
\* loaded and saves it
LedgerSave(r) ==
    /\ req[r].pc = "loaded"
    /\ LET u == req[r].user
           id == req[r].id
           X == req[r].X
           sc == req[r].sc
       IN  CASE req[r].op = "add" ->
                  LET added == AddCourseOk(sc.courses, CourseData(id)) IN
                  /\ IF added
                     THEN SaveStudentCourse(u, AddCourseList(sc.courses,
                                                             CourseData(id)))
                     ELSE UNCHANGED <<student_course, has_courses>>
                  /\ lastOp' = Response("add", u, id, << >>,
                                        PostStatus(added),
                                        IF added THEN ""
                                        ELSE "Course already added",
                                        IF added THEN <<CourseData(id)>>
                                        ELSE << >>)
             [] req[r].op = "remove" ->
                  LET removed == RemoveCourseOk(sc.courses, id) IN
                  /\ IF removed
                     THEN SaveStudentCourse(u, RemoveCourseList(sc.courses, id))
                     ELSE UNCHANGED <<student_course, has_courses>>
                  /\ lastOp' = Response("remove", u, id, << >>,
                                        RemoveStatus(TRUE, removed),
                                        IF removed THEN ""
                                        ELSE "Course not found", << >>)
             [] req[r].op = "put" ->
                  /\ IF ValidCourses(X)
                     THEN SaveStudentCourse(u, PutStored(sc.courses, X))
                     ELSE UNCHANGED <<student_course, has_courses>>
                  /\ lastOp' = Response("put", u, "-", X,
                                        IF ValidCourses(X) THEN 200 ELSE 400,
                                        IF ValidCourses(X) THEN "" ELSE "courses",
                                        IF ValidCourses(X)
                                        THEN PutStored(sc.courses, X)
                                        ELSE << >>)
    /\ req' = [req EXCEPT ![r] = Idle]
    /\ UNCHANGED <<catalog, student, profile, rows>>

NextConc ==
    \/ \E r \in Reqs, u \in ConcUsers, y \in Years : ProfileCreateGet(r, u, y)
    \/ \E r \in Reqs : ProfileCreateSave(r)
    \/ \E r \in Reqs, u \in ConcUsers, id \in CourseIds :
          LedgerLoad(r, "add", u, id, << >>)
    \/ \E r \in Reqs, u \in ConcUsers, id \in CourseIds :
          LedgerLoad(r, "remove", u, id, << >>)
    \/ \E r \in Reqs, u \in ConcUsers, X \in ConcPutInputs :
          LedgerLoad(r, "put", u, "-", X)
    \/ \E r \in Reqs : LedgerSave(r)

SpecConc == Init /\ [][NextConc]_vars

\* ------------------------------------------------------------------
\* Properties of interleaved requests (SpecConc)
\* ------------------------------------------------------------------

\* C19: there is at most one Student profile per user after every step, also
\* when two create requests for the user have both passed the existence
\* check before either writes; a create request answered for a user that
\* has a profile fails and leaves the Student table as it was.
C19_OneProfilePerUser ==
    [][/\ \A s1, s2 \in student' : s1.user = s2.user => s1 = s2
       /\ (/\ lastOp'.op = "profile_create"
           /\ lastOp'.status # 0
           /\ \E s \in student : s.user = lastOp'.user)
             => /\ lastOp'.status \in {400, 500}
                /\ student' = student]_vars

\* C19 witness: two workers passed the existence check for u1 with
\* different bodies, the first inserted and the second one's insert failed
C19_Witness ==
    /\ lastOp.op = "profile_create"
    /\ lastOp.status = 500
    /\ student = {NewStudent("r1", "u1", 1)}
    /\ req["r2"] = Idle

Ids(courses) == {courses[i].id : i \in 1..Len(courses)}

\* C21: concurrent ledger requests of one student serialize and no
\* successful update is lost: a request that reports success has, on the
\* ledger as committed when it writes, the effect it has when run alone (a
\* successful add of c leaves every enrollment that was in the ledger and
\* adds c, a successful remove of c takes out c and nothing else), as every
\* serial order of the overlapping requests gives.
C21_NoLostUpdate ==
    [][\A u \in Users :
          /\ (lastOp'.op = "add" /\ lastOp'.status = 201 /\ lastOp'.user = u)
                => Ids(student_course'[u].courses)
                      = Ids(student_course[u].courses) \cup {lastOp'.course}
          /\ (lastOp'.op = "remove" /\ lastOp'.status = 200
                 /\ lastOp'.user = u)
                => Ids(student_course'[u].courses)
                      = Ids(student_course[u].courses) \ {lastOp'.course}]_vars

\* ------------------------------------------------------------------
\* Two students served side by side
\* ------------------------------------------------------------------

\* the student each worker serves
ServedBy == [r \in Reqs |-> IF r = "r1" THEN "u1" ELSE "u2"]

\* u1 has a profile, u2 has one or not; every student with a profile is
\* enrolled in c1, ungraded or graded A
InitPair ==
    /\ catalog = InitialCatalog
    /\ profile \in {{"u1"}, Users}
    /\ student = {NewStudent("r0", u, 1) : u \in profile}
    /\ req = [r \in Reqs |-> Idle]
    /\ has_courses = [u \in Users |-> FALSE]
    /\ student_course = [u \in Users |-> NoRecord]
    /\ rows \in {S \in SUBSET CreatedRows(profile) :
                    /\ UniqueTogether(S)
                    /\ \A r \in S : r.course = "c1" /\ r.grade # "B"
                    /\ \A u \in profile : \E r \in S : r.student = u}
    /\ lastOp = Response("init", "-", "-", << >>, 0, "", << >>)

NextPair ==
    \/ \E r \in Reqs : LedgerLoad(r, "add", ServedBy[r], "c1", << >>)
    \/ \E r \in Reqs : LedgerLoad(r, "remove", ServedBy[r], "c1", << >>)
    \/ \E r \in Reqs : LedgerLoad(r, "put", ServedBy[r], "-", << >>)
    \/ \E r \in Reqs : LedgerSave(r)
    \/ \E u \in Users :
          StudentCourseSave(u, "c1", "B", [assign |-> FALSE, value |-> NoPoints])
    \/ \E u \in Users : ResetGrades(u)
    \/ \E u \in Users : CalculateGpa(u)
    \/ \E u \in Users, t \in {400, 510} : GenerateTargetGpa(u, t)

SpecPair == InitPair /\ [][NextPair]_vars

\* C22: every ledger or grading step taken for student S leaves the ledger
\* record, the flag and the enrollments with their grades and points of
\* every other student unchanged, whatever those students' own requests
\* have reached.
C22_OtherStudentsUnchanged ==
    [][\A u \in Users :
          u # lastOp'.user =>
             /\ student_course'[u] = student_course[u]
             /\ has_courses'[u] = has_courses[u]
             /\ {r \in rows' : r.student = u} = {r \in rows : r.student = u}]_vars

\* C22 witness: u1's grades were reset while u2's request is in flight and
\* u2 holds an ungraded enrollment and a course in the ledger
C22_Witness ==
    /\ lastOp.op = "reset"
    /\ lastOp.user = "u1"
    /\ lastOp.status = 200
    /\ req["r2"].pc = "loaded"
    /\ Ledger("u2") # << >>
    /\ \E r \in rows : r.student = "u2" /\ r.grade = NULL

\* ------------------------------------------------------------------
\* Catalog administration and cascading deletes
\*
\* The admin site registers Course, Program and Student; a delete there
\* follows the on_delete=CASCADE foreign keys of models.py. The Program,
\* College and University tables are not held: a Program stands for the
\* ancestors of a Course, and deleting it deletes the rows that refer to it.
\* ------------------------------------------------------------------

\* Course.program
ProgramOf == [c \in CourseIds |-> IF c = "c1" THEN "p1" ELSE "p2"]

\* Student.program
StudentProgram == [u \in Users |-> IF u = "u1" THEN "p1" ELSE "p2"]

Programs == {"p1", "p2"}

\* credits an administrator types into the Course form: IntegerField takes
\* any integer
CreditInputs == {0}

\* on_delete=CASCADE of StudentCourse.student and StudentCourse.course: the
\* rows left when the courses C and the students U are deleted
Cascade(C, U) == {r \in rows : r.course \notin C /\ r.student \notin U}

\* the tables after the Course rows C and the Student rows of the users U
\* are deleted. The JSON record of a deleted student goes with the student
\* (ownership, modelled from the specification); a JSON list holds plain
\* dicts and no foreign key, so a deleted course stays in the lists.
DeleteRows(C, U) ==
    /\ catalog' = [c \in DOMAIN catalog \ C |-> catalog[c]]
    /\ student' = {s \in student : s.user \notin U}
    /\ profile' = profile \ U
    /\ rows' = Cascade(C, U)
    /\ student_course' = [u \in Users |->
                            IF u \in U THEN NoRecord ELSE student_course[u]]
    /\ has_courses' = [u \in Users |->
                         IF u \in U THEN FALSE ELSE has_courses[u]]
    /\ UNCHANGED req

\* admin: delete one Course
DeleteCourse(c) ==
    /\ c \in DOMAIN catalog
    /\ DeleteRows({c}, {})
    /\ lastOp' = Response("delete_course", "-", c, << >>, 200, "", << >>)

\* admin: delete one Student
DeleteStudent(u) ==
    /\ u \in profile
    /\ DeleteRows({}, {u})
    /\ lastOp' = Response("delete_student", u, "-", << >>, 200, "", << >>)

\* admin: delete one Program (or the College or University above it): its
\* Course rows and the Student rows that refer to it go with it
DeleteProgram(p) ==
    LET C == {c \in DOMAIN catalog : ProgramOf[c] = p}
        U == {u \in profile : StudentProgram[u] = p}
    IN  /\ C \cup U # {}
        /\ DeleteRows(C, U)
        /\ lastOp' = Response("delete_program", "-", p, << >>, 200, "", << >>)

\* admin: edit one Course (name, credits, semester)
UpdateCourse(c, k) ==
    /\ c \in DOMAIN catalog
    /\ catalog' = [catalog EXCEPT ![c].name = "Renamed",
                                  ![c].credits = k,
                                  ![c].semester = 2]
    /\ lastOp' = Response("update_course", "-", c, << >>, 200, "", << >>)
    /\ UNCHANGED <<student, req, profile, has_courses, student_course, rows>>

\* PUT bodies: course c1 as the client holds it, and a course whose id
\* names no Course row
CatalogPutInputs ==
    { <<[id |-> "c1", code |-> "CS101", name |-> "Intro", credits |-> "3",
         type |-> "core", semester |-> "1", year |-> "1"]>>,
      <<[id |-> UnknownId, code |-> "XX999", name |-> "Ghost",
         credits |-> "3", type |-> "core", semester |-> "1",
         year |-> "1"]>> }

\* both users have a profile; up to MaxGpaRows enrollments, ungraded or
\* graded A
InitCatalog ==
    /\ catalog = InitialCatalog
    /\ profile = Users
    /\ student = {NewStudent("r0", u, 1) : u \in profile}
    /\ req = [r \in Reqs |-> Idle]
    /\ has_courses = [u \in Users |-> FALSE]
    /\ student_course = [u \in Users |-> NoRecord]
    /\ rows \in {S \in SUBSET CreatedRows(profile) :
                    /\ UniqueTogether(S)
                    /\ Cardinality(S) <= MaxGpaRows
                    /\ \A r \in S : r.grade # "B"}
    /\ lastOp = Response("init", "-", "-", << >>, 0, "", << >>)

\* admin: the points an administrator types into the StudentCourse form
\* with the grade left empty (7.0); points is a FloatField with no validator
AdminPointsInputs == {[assign |-> TRUE, value |-> 70]}

\* the student whose JSON course list is exercised
LedgerUsers == {"u1"}

NextCatalog ==
    \/ \E u \in LedgerUsers, id \in CourseIds : StudentCoursesPost(u, id)
    \/ \E u \in LedgerUsers, X \in CatalogPutInputs : StudentCoursesPut(u, X)
    \/ \E u \in LedgerUsers : GetStudentCoursesFiltered(u, NoFilter)
    \/ \E u \in Users : CalculateGpa(u)
    \/ \E c \in CourseIds : DeleteCourse(c)
    \/ \E u \in Users : DeleteStudent(u)
    \/ \E p \in Programs : DeleteProgram(p)
    \/ \E c \in CourseIds, k \in CreditInputs : UpdateCourse(c, k)
    \/ \E u \in LedgerUsers, pin \in AdminPointsInputs :
          StudentCourseSave(u, "c1", NULL, pin)

SpecCatalog == InitCatalog /\ [][NextCatalog]_vars

\* ------------------------------------------------------------------
\* C23: every enrollment refers to a Student and a Course that exist
\* ------------------------------------------------------------------

\* C23: in every reachable state every enrollment (a StudentCourse row or a
\* snapshot in a student's course list) refers to a Student and a Course that
\* both exist; a delete of a Student or of a Course, direct or cascading,
\* removes exactly the enrollments that refer to the deleted rows.
C23_EnrollmentsReferToExisting ==
    /\ \A r \in rows : r.student \in profile /\ r.course \in DOMAIN catalog
    /\ \A u \in Users :
          student_course[u].exists =>
             /\ u \in profile
             /\ Ids(student_course[u].courses) \subseteq DOMAIN catalog

\* ------------------------------------------------------------------
\* get_gpa_breakdown over points that are not multiples of 0.1
\*
\* points is a FloatField: a row saved with no grade keeps whatever points
\* value was stored. Here points are in thousandths, so that round(x, 2)
\* has something to round; contribution and total_points are in hundredths.
\* ------------------------------------------------------------------

\* stored points values, thousandths: 0.001, 0.004, 0.006, 1.234, 2.5, 4.0, 5.0
MilliPointInputs == {1, 4, 6, 1234, 2500, 4000, 5000}

\* the rows with points a student can hold: at most one per course
MilliQueries ==
    {q \in SeqsUpTo([course : CourseIds, points : MilliPointInputs],
                    MaxGpaRows) :
        /\ Len(q) <= Cardinality(CourseIds)
        /\ \A i, j \in 1..Len(q) : q[i].course = q[j].course => i = j}

\* round(x, 2) of a value in thousandths, in hundredths
RoundMilli(x) == Round2(x, 10)

\* contribution = student_course.points * student_course.course.credits
RawContribution(e) == e.points * catalog[e.course].credits

\* total_points += contribution
RECURSIVE RawTotal(_)
RawTotal(q) ==
    IF q = << >> THEN 0 ELSE RawContribution(Head(q)) + RawTotal(Tail(q))

\* a total taken from the rounded contributions
RECURSIVE BreakdownTotalFromRounded(_)
BreakdownTotalFromRounded(q) ==
    IF q = << >> THEN 0
    ELSE RoundMilli(RawContribution(Head(q)))
            + BreakdownTotalFromRounded(Tail(q))

\* 'total_points': round(total_points, 2)
BreakdownTotal(q) == RoundMilli(RawTotal(q))

\* the contribution and total_points values of Student.get_gpa_breakdown
BreakdownTotals(q) ==
    [total_points |-> BreakdownTotal(q),
     contributions |-> [i \in 1..Len(q) |-> RoundMilli(RawContribution(q[i]))]]

\* get_gpa_breakdown for a student whose rows with points are q
ComputeBreakdownTotals(q) ==
    /\ lastOp' = Response("totals", "-", "-", q, 200, "",
                          <<BreakdownTotals(q)>>)
    /\ UNCHANGED <<catalog, student, req, profile, has_courses,
                   student_course, rows>>

NextRound == \E q \in MilliQueries : ComputeBreakdownTotals(q)

SpecRound == Init /\ [][NextRound]_vars

\* ------------------------------------------------------------------
\* C24: total_points is rounded once, from the raw sum
\* ------------------------------------------------------------------

\* sum of points x credits over the rows of a request, thousandths
RECURSIVE C24_RawSum(_)
C24_RawSum(q) ==
    IF q = << >> THEN 0
    ELSE Head(q).points * catalog[Head(q).course].credits
            + C24_RawSum(Tail(q))

\* sum of the reported contribution values, hundredths
RECURSIVE C24_Reported(_)
C24_Reported(c) ==
    IF c = << >> THEN 0 ELSE Head(c) + C24_Reported(Tail(c))

\* C24: computeBreakdown's total_points is the raw sum of points x credits
\* rounded once to 2 decimals: it lies within half a hundredth of the raw
\* sum, whatever the sum of the rounded contribution values is.
C24_TotalRoundedOnce ==
    lastOp.op = "totals" =>
        LET b == lastOp.body[1]
        IN  /\ Abs(10 * b.total_points - C24_RawSum(lastOp.X)) < 5
            /\ \A i \in 1..Len(lastOp.X) :
                  Abs(10 * b.contributions[i]
                        - C24_RawSum(<<lastOp.X[i]>>)) < 5

\* a breakdown whose total_points differs from the sum of its reported
\* contributions (0.003 and 0.004 round to 0.00 each, 0.007 to 0.01)
C24_Witness ==
    /\ lastOp.op = "totals"
    /\ Len(lastOp.X) = 2
    /\ lastOp.body[1].total_points
          # C24_Reported(lastOp.body[1].contributions)

\* ------------------------------------------------------------------
\* C25: plan's actualGPA is computeGPA and ignores ungraded enrollments
\* ------------------------------------------------------------------

\* the enrollments of u with no grade: the ones plan makes proposals for
Ungraded(u) == {r \in StudentRows(u) : r.grade = NULL}

\* get_gpa of u were the enrollments S not there
C25_GpaWithout(u, S) ==
    LET q == QuerySeq(PointsNotNull(u) \ S)
    IN  IF q = << >> THEN 0
        ELSE IF TotalCredits(q) = 0 THEN 0
        ELSE Round2(TotalPoints(q) * 10, TotalCredits(q))

\* C25: the actualGPA of a plan equals computeGPA of the student on the
\* same state, and it and the accuracy are the same whichever of the
\* student's ungraded enrollments are there: they depend on the graded
\* enrollments only.
C25_ActualGpaIgnoresUngraded ==
    (Planned /\ lastOp.status = 200) =>
        LET b == lastOp.body[1]
            u == lastOp.user
        IN  /\ b.actual_gpa = GetGpa(u)
            /\ \A S \in SUBSET Ungraded(u) :
                  /\ C25_GpaWithout(u, S) = b.actual_gpa
                  /\ Accuracy(C25_GpaWithout(u, S), b.target_gpa) = b.accuracy

\* ------------------------------------------------------------------
\* C26: a stored snapshot is not altered by a later catalog change
\* ------------------------------------------------------------------

\* C26: a change of a Course record (name, credits, semester) changes
\* nothing of what list returns to any student, with or without filters:
\* the listed fields stay those stored by the add or bulkReplace call.
C26_SnapshotKeepsFields ==
    [][lastOp'.op = "update_course" =>
          \A u \in Users, f \in Filters :
              ListResponse(student_course[u], f)'
                 = ListResponse(student_course[u], f)]_vars

\* C26 witness: list returns course c1 with the name and credits it had when
\* it was added, after the Course record was renamed and its credits changed
C26_Witness ==
    /\ lastOp.op = "list"
    /\ lastOp.status = 200
    /\ Len(lastOp.body) = 1
    /\ lastOp.body[1].id = "c1"
    /\ lastOp.body[1].name = "Intro"
    /\ lastOp.body[1].credits = 3
    /\ "c1" \in DOMAIN catalog
    /\ catalog["c1"].name = "Renamed"
    /\ catalog["c1"].credits # 3

\* ------------------------------------------------------------------
\* C27: the read operations change no stored state
\* ------------------------------------------------------------------

\* C27: a list of the student's courses (GET students/courses/, or the
\* filtered list) and a GPA computation create or modify no ledger record,
\* enrollment, grade, points value or flag, so a repeated call returns what
\* the first one returned.
C27_ReadsChangeNothing ==
    [][lastOp'.op \in {"get", "list", "gpa"} =>
          /\ student_course' = student_course
          /\ has_courses' = has_courses
          /\ rows' = rows
          /\ profile' = profile
          /\ \A u \in Users, f \in Filters :
                ListResponse(student_course[u], f)'
                   = ListResponse(student_course[u], f)]_vars

\* ------------------------------------------------------------------
\* C28: reset-grades
\* ------------------------------------------------------------------

\* the courses student u is enrolled in
EnrolledCourses(u) == {r.course : r \in StudentRows(u)}

\* C28: after reset-grades for student S every enrollment of S, graded or
\* not before, has grade "A" and points 5.0, S is enrolled in the same
\* courses as before, courses_updated is the number of S's enrollments, and
\* a plan for S with any valid target then makes no proposal.
C28_ResetGrades ==
    [][(lastOp'.op = "reset" /\ lastOp'.status = 200) =>
          \A u \in Users :
              u = lastOp'.user =>
                 /\ \A r \in StudentRows(u)' :
                       r.grade = "A" /\ r.points = 50
                 /\ EnrolledCourses(u)' = EnrolledCourses(u)
                 /\ Cardinality(StudentRows(u)') = Cardinality(StudentRows(u))
                 /\ lastOp'.body = <<Cardinality(StudentRows(u))>>
                 /\ \A t \in TargetInputs :
                       TargetValid(t) => TargetGrades(u, t)' = << >>]_vars

\* C28 witness: a reset reported two courses updated, and both enrollments
\* of the student read "A" with 5.0 points
C28_Witness ==
    /\ lastOp.op = "reset"
    /\ lastOp.status = 200
    /\ lastOp.body = <<2>>
    /\ Cardinality(StudentRows(lastOp.user)) = 2
    /\ \A r \in StudentRows(lastOp.user) : r.grade = "A" /\ r.points = 50

\* ------------------------------------------------------------------
\* C29: the range of computeGPA
\* ------------------------------------------------------------------

\* C29: in every reachable state where every course has credits > 0,
\* computeGPA of every student lies in [0.0, 5.0]; and in every reachable
\* state a student whose enrollments with points have credits that sum to 0
\* gets 0.0, with no division.
C29_GpaInRange ==
    /\ (\A c \in DOMAIN catalog : catalog[c].credits > 0) =>
          \A u \in Users : GetGpa(u) >= 0 /\ GetGpa(u) <= 500
    /\ \A u \in Users :
          SumCredits(PointsNotNull(u)) = 0 => GetGpa(u) = 0

\* ------------------------------------------------------------------
\* C30: graded for the engine or ungraded for the planner
\* ------------------------------------------------------------------

\* the enrollment r of student u is an entry of computeBreakdown
C30_Counted(u, r) ==
    LET b == GetGpaBreakdown(u).breakdown
    IN  \E i \in 1..Len(b) : b[i].course_code = catalog[r.course].code

\* plan for student u with target t makes a proposal for the enrollment r
C30_Proposed(u, r, t) ==
    LET g == TargetGrades(u, t)
    IN  \E i \in 1..Len(g) : g[i].course_id = r.course

\* C30: in every reachable state each enrollment of a student either counts
\* toward computeGPA and computeBreakdown or gets a proposal from plan,
\* never both and never neither.
C30_GradedXorPlanned ==
    \A u \in profile :
        \A r \in StudentRows(u) :
            \A t \in {x \in TargetInputs : TargetValid(x)} :
                C30_Counted(u, r) <=> ~C30_Proposed(u, r, t)

====
